---- MODULE Spec2Model ----
(***************************************************************************)
(* A model of Streamlitapp.py: the record cleaner (clean_data), the        *)
(* insight client (get_gemini_response) and one render pass of main        *)
(* (upload, clean, campaign summary, filters, empty check, five charts).   *)
(*                                                                         *)
(* Specifications                                                          *)
(*   Spec        a render pass of main, step by step                       *)
(*   SpecClean   clean_data applied to a raw table                         *)
(*   SpecGemini  get_gemini_response applied to a key and a transport      *)
(*   SpecFilter  the filters section applied to a table and a selection    *)
(*   SpecTop     the top-locations aggregation applied to a column         *)
(*                                                                         *)
(* Data representation                                                     *)
(*   - a DataFrame is [cols |-> set of column names, rows |-> sequence],   *)
(*     a row is [idx |-> pandas index label, cells |-> [cols -> value]];   *)
(*   - a raw Date cell is [k, y, m, d, hh]: k = "text" for a cell whose    *)
(*     text has the shape of a date (its fields may still be no calendar   *)
(*     date), "junk" for any other text, "nan" for an empty cell;          *)
(*   - a raw Engagements cell is the sequence of its characters;           *)
(*   - a categorical cell is a string, "NaN" standing for a missing cell;  *)
(*   - a Timestamp is [nat, y, m, d, hh], NaT having nat = TRUE;           *)
(*   - a canonical Date ('%Y-%m-%d' text) is <<y, m, d>>.                  *)
(* pd.to_datetime is modelled as parsing each cell on its own.             *)
(***************************************************************************)
EXTENDS Integers, Sequences, FiniteSets, TLC

VARIABLES
    \* Spec, a render pass of main
    pc,             \* where the pass stands
    uploaded,       \* what st.file_uploader returned
    df,             \* the canonical table
    filtered_df,    \* the filtered table
    calls,          \* the get_gemini_response calls made: the label, the number
                    \* of HTTP posts, whether a fallback message came back
    charts,         \* the charts rendered, each with its aggregation
    ui,             \* the st.success / st.warning / st.error signals given
    \* SpecClean, clean_data on its own
    c_pc, c_in, c_out,
    \* SpecGemini, get_gemini_response on its own
    g_pc, g_prompt, g_key, g_transport, g_ret, g_posts,
    \* SpecFilter, the filters section on its own
    f_pc, f_df, f_sel, f_out,
    \* SpecTop, the top-locations aggregation on its own
    t_pc, t_rows, t_top

passVars   == <<pc, uploaded, df, filtered_df, calls, charts, ui>>
cleanVars  == <<c_pc, c_in, c_out>>
geminiVars == <<g_pc, g_prompt, g_key, g_transport, g_ret, g_posts>>
filterVars == <<f_pc, f_df, f_sel, f_out>>
topVars    == <<t_pc, t_rows, t_top>>
vars == <<passVars, cleanVars, geminiVars, filterVars, topVars>>

\* The most rows of a table handed to clean_data in SpecClean.
MaxCleanRows == 3

\* The most rows of an uploaded table in Spec and of a raw table in SpecFilter.
MaxRows == 3

\* The most rows of a filtered table in SpecTop.
MaxTopRows == 7

(***************************************************************************)
(* Calendar and number parsing: what pd.to_datetime(errors='coerce'),      *)
(* .dt.strftime('%Y-%m-%d') and pd.to_numeric(errors='coerce') do.         *)
(***************************************************************************)
IsLeap(y) == (y % 4 = 0 /\ y % 100 # 0) \/ y % 400 = 0

DaysInMonth(y, m) ==
    CASE m \in {1, 3, 5, 7, 8, 10, 12} -> 31
      [] m \in {4, 6, 9, 11} -> 30
      [] OTHER -> IF IsLeap(y) THEN 29 ELSE 28

NaT == [nat |-> TRUE, y |-> 0, m |-> 0, d |-> 0, hh |-> 0]

\* pd.to_datetime(cell, errors='coerce') of one raw cell.
ToDatetime(cell) ==
    IF /\ cell.k = "text"
       /\ cell.m \in 1..12
       /\ cell.d >= 1
       /\ cell.d <= DaysInMonth(cell.y, cell.m)
       /\ cell.hh \in 0..23
    THEN [nat |-> FALSE, y |-> cell.y, m |-> cell.m, d |-> cell.d, hh |-> cell.hh]
    ELSE NaT

\* ts.strftime('%Y-%m-%d'): the time of day is not printed.
Strftime(ts) == <<ts.y, ts.m, ts.d>>

Digits == {"0", "1", "2", "3", "4", "5", "6", "7", "8", "9"}

DigitVal(c) ==
    CASE c = "0" -> 0 [] c = "1" -> 1 [] c = "2" -> 2 [] c = "3" -> 3
      [] c = "4" -> 4 [] c = "5" -> 5 [] c = "6" -> 6 [] c = "7" -> 7
      [] c = "8" -> 8 [] c = "9" -> 9

RECURSIVE DigitsVal(_)
DigitsVal(s) ==
    IF s = <<>> THEN 0
    ELSE DigitsVal(SubSeq(s, 1, Len(s) - 1)) * 10 + DigitVal(s[Len(s)])

NaN == [nan |-> TRUE, v |-> 0]

\* pd.to_numeric(cell, errors='coerce') of one raw cell (integers, signed).
ToNumeric(s) ==
    IF s = <<>> THEN NaN
    ELSE LET neg  == s[1] = "-"
             body == IF neg THEN Tail(s) ELSE s
         IN  IF body # <<>> /\ \A i \in 1..Len(body) : body[i] \in Digits
             THEN [nan |-> FALSE, v |-> (IF neg THEN 0 - DigitsVal(body) ELSE DigitsVal(body))]
             ELSE NaN

\* A variant of the fill: a sentinel of -1 in place of 0.
FillNaMinusOne(x) == IF x.nan THEN 0 - 1 ELSE x.v

\* Series.fillna(0) on one value.
FillNa0(x) == IF x.nan THEN 0 ELSE x.v

(***************************************************************************)
(* clean_data (lines 12-28).  The result is [exc, df]: exc = "" for a      *)
(* normal return, else the exception raised.                               *)
(***************************************************************************)
\* pd.DataFrame(): no column, no row.
NoFrame == [cols |-> {}, rows |-> <<>>]

SetCell(row, col, val) ==
    [row EXCEPT !.cells = [c \in DOMAIN row.cells |-> IF c = col THEN val ELSE row.cells[c]]]

\* A column-wise operation: F applied to every row, in order.
MapRows(rows, F(_)) ==
    LET acc[i \in 0..Len(rows)] ==
            IF i = 0 THEN <<>> ELSE Append(acc[i - 1], F(rows[i]))
    IN  acc[Len(rows)]

\* A variant of the drop: df.dropna() without the subset, which also drops
\* the rows whose Engagements cell is empty.
DropNaAnyColumn(rows) ==
    LET Complete(r) == ~r.cells["Date"].nat /\ r.cells["Engagements"] # <<>>
    IN  SelectSeq(rows, Complete)

\* df.dropna(subset=['Date']) after line 19: the rows whose Date is not NaT.
DropNaDate(rows) ==
    LET NotNaT(r) == ~r.cells["Date"].nat
    IN  SelectSeq(rows, NotNaT)

\* The Engagements column after line 27.
CoerceEngagements(row) ==
    SetCell(row, "Engagements", FillNa0(ToNumeric(row.cells["Engagements"])))

clean_data(table) ==
    IF "Date" \notin table.cols
    THEN [exc |-> "KeyError: 'Date'", df |-> table]
    ELSE LET Parse(r)  == SetCell(r, "Date", ToDatetime(r.cells["Date"]))
             Format(r) == SetCell(r, "Date", Strftime(r.cells["Date"]))
             parsed    == MapRows(table.rows, Parse)
             kept      == DropNaDate(parsed)
             formatted == MapRows(kept, Format)
         IN  IF "Engagements" \notin table.cols
             THEN [exc |-> "KeyError: 'Engagements'", df |-> table]
             ELSE [exc |-> "",
                   df  |-> [cols |-> table.cols,
                            rows |-> MapRows(formatted, CoerceEngagements)]]

(***************************************************************************)
(* Python values as JSON carries them, and the operations lines 51-54 use. *)
(* A value is a tagged tuple; a string is the sequence of its characters,  *)
(* a dict a function from its keys.  An evaluation yields [exc, v]: exc is *)
(* "" when it yields the value v, else the class of the exception raised.  *)
(***************************************************************************)
JNull == <<"null">>
JStr(chars) == <<"str", chars>>
JNum(n) == <<"num", n>>
JList(items) == <<"list", items>>
JDict(f) == <<"dict", f>>
EmptyDict == JDict(<<>>)

Ok(v) == [exc |-> "", v |-> v]
Raise(cls) == [exc |-> cls, v |-> JNull]

\* bool(j)
Truthy(j) ==
    CASE j[1] = "null" -> FALSE
      [] j[1] = "num"  -> j[2] # 0
      [] j[1] = "str"  -> j[2] # <<>>
      [] j[1] = "list" -> j[2] # <<>>
      [] j[1] = "dict" -> DOMAIN j[2] # {}

\* j.get(key): only a dict has it.
PyGet(j, key) ==
    IF j[1] = "dict"
    THEN Ok(IF key \in DOMAIN j[2] THEN j[2][key] ELSE JNull)
    ELSE Raise("AttributeError")

\* j[0]
PyIndex0(j) ==
    CASE j[1] = "list" -> IF j[2] # <<>> THEN Ok(j[2][1]) ELSE Raise("IndexError")
      [] j[1] = "str"  -> IF j[2] # <<>> THEN Ok(JStr(<<j[2][1]>>)) ELSE Raise("IndexError")
      [] j[1] = "dict" -> Raise("KeyError")      \* JSON keys are strings, never 0
      [] OTHER         -> Raise("TypeError")

\* j[key], key a string
PyKey(j, key) ==
    IF j[1] = "dict"
    THEN IF key \in DOMAIN j[2] THEN Ok(j[2][key]) ELSE Raise("KeyError")
    ELSE Raise("TypeError")

\* x, then F of its value unless x raised.
Then(x, F(_)) == IF x.exc # "" THEN x ELSE F(x.v)

(***************************************************************************)
(* get_gemini_response (lines 31-62).                                      *)
(***************************************************************************)
Msg(id) == <<"msg", id>>
MsgWith(id, e) == <<"msg", id, e>>

\* The value is one of the messages of lines 36, 56, 58, 60, 62.
IsFallback(v) == v[1] = "msg"

\* A variant of the key test: `if api_key is None`.
KeyIsNone(api_key) == api_key = JNull

\* Line 35: `not api_key`.
KeyAbsent(api_key) == ~Truthy(api_key)

\* Lines 51-56 on the decoded body: the value returned, or the exception.
ExtractText(result) ==
    LET GetContent(c) == PyGet(c, "content")
        GetParts(c)   == PyGet(c, "parts")
        GetText(c)    == PyGet(c, "text")
        KeyContent(c) == PyKey(c, "content")
        KeyParts(c)   == PyKey(c, "parts")
        KeyText(c)    == PyKey(c, "text")
        cand0   == Then(PyKey(result, "candidates"), PyIndex0)
        content == Then(cand0, KeyContent)
        part0   == Then(Then(content, KeyParts), PyIndex0)
        e1 == PyGet(result, "candidates")
        e2 == Then(cand0, GetContent)
        e3 == Then(content, GetParts)
        e4 == Then(part0, GetText)
        unexpected == Ok(Msg("Struktur respons tidak terduga"))
    IN  IF e1.exc # "" THEN e1
        ELSE IF ~Truthy(e1.v) THEN unexpected
        ELSE IF e2.exc # "" THEN e2
        ELSE IF ~Truthy(e2.v) THEN unexpected
        ELSE IF e3.exc # "" THEN e3
        ELSE IF ~Truthy(e3.v) THEN unexpected
        ELSE IF e4.exc # "" THEN e4
        ELSE IF ~Truthy(e4.v) THEN unexpected
        ELSE Then(part0, KeyText)

\* Lines 47-56, the body of the try: requests.post, raise_for_status,
\* response.json(), the extraction.
TryBody(transport) ==
    IF transport.k = "fail" THEN Raise(transport.cls)
    ELSE IF transport.status >= 400 /\ transport.status < 600 THEN Raise("HTTPError")
    ELSE IF transport.body[1] = "notjson" THEN Raise(transport.body[2])
    ELSE ExtractText(transport.body[2])

\* The exception classes each except clause of lines 57-62 catches.
RequestExceptions ==
    {"ConnectionError", "Timeout", "HTTPError", "requests.JSONDecodeError"}
JsonDecodeErrors == {"json.JSONDecodeError", "requests.JSONDecodeError"}

\* Lines 57-62: the three except clauses, in order.
Handle(r) ==
    IF r.exc = "" THEN [raised |-> "", ret |-> r.v]
    ELSE IF r.exc \in RequestExceptions
    THEN [raised |-> "", ret |-> MsgWith("Terjadi kesalahan saat memanggil Gemini API", r.exc)]
    ELSE IF r.exc \in JsonDecodeErrors
    THEN [raised |-> "", ret |-> Msg("Terjadi kesalahan saat menguraikan respons JSON")]
    ELSE [raised |-> "", ret |-> MsgWith("Terjadi kesalahan yang tidak terduga", r.exc)]

\* A variant of the call: a second requests.post when the first try failed.
get_gemini_response_retry(prompt_text, api_key, transport) ==
    IF KeyAbsent(api_key)
    THEN [raised |-> "", ret |-> Msg("API Key tidak tersedia"), posts |-> <<>>]
    ELSE LET h == Handle(TryBody(transport))
             post == [key |-> api_key, prompt |-> prompt_text]
         IN  [raised |-> h.raised, ret |-> h.ret,
              posts  |-> IF IsFallback(h.ret) THEN <<post, post>> ELSE <<post>>]

\* The call: [raised, ret, posts], posts the HTTP requests it issued.
get_gemini_response(prompt_text, api_key, transport) ==
    IF KeyAbsent(api_key)
    THEN [raised |-> "", ret |-> Msg("API Key tidak tersedia"), posts |-> <<>>]
    ELSE LET h == Handle(TryBody(transport))
         IN  [raised |-> h.raised, ret |-> h.ret,
              posts  |-> <<[key |-> api_key, prompt |-> prompt_text]>>]

(***************************************************************************)
(* main, the filters section (lines 177-222).                              *)
(***************************************************************************)
CategoricalColumns == {"Platform", "Sentiment", "Media Type", "Location"}

\* df[col].unique(): the distinct cells of a column, the missing one included.
Unique(table, col) == { table.rows[i].cells[col] : i \in 1..Len(table.rows) }

\* sorted(values) compares a missing cell (a float) with a string and raises
\* TypeError when the column holds both.
SortedRaises(values) == "NaN" \in values /\ values \ {"NaN"} # {}

\* Lines 179, 182, 185, 190: the choices a selectbox offers.
Options(table, col) ==
    IF col \in table.cols THEN {"All"} \cup Unique(table, col) ELSE {"All"}

\* The filters section raises when some present column cannot be sorted.
OptionsRaise(table) ==
    \E col \in CategoricalColumns \cap table.cols : SortedRaises(Unique(table, col))

\* pd.to_datetime of a canonical '%Y-%m-%d' string (lines 195, 215, 257) and
\* of a datetime.date (lines 217, 219): midnight of that day.
DateToTimestamp(date) ==
    [nat |-> FALSE, y |-> date[1], m |-> date[2], d |-> date[3], hh |-> 0]

\* Timestamp.date()
TimestampDate(ts) == <<ts.y, ts.m, ts.d>>

\* The position of a Timestamp on the time line, in hours: what <= and >=
\* between Timestamps compare.
TsKey(ts) == ((ts.y * 12 + (ts.m - 1)) * 31 + (ts.d - 1)) * 24 + ts.hh

\* Lines 196-197: Series.min() / Series.max() of the Date column.
MinTimestamp(rows) ==
    LET ts(i) == DateToTimestamp(rows[i].cells["Date"])
    IN  ts(CHOOSE i \in 1..Len(rows) : \A j \in 1..Len(rows) : TsKey(ts(i)) <= TsKey(ts(j)))

MaxTimestamp(rows) ==
    LET ts(i) == DateToTimestamp(rows[i].cells["Date"])
    IN  ts(CHOOSE i \in 1..Len(rows) : \A j \in 1..Len(rows) : TsKey(ts(i)) >= TsKey(ts(j)))

\* Lines 196-197: the bounds of both date inputs.
min_date(table) ==
    IF table.rows # <<>> THEN TimestampDate(MinTimestamp(table.rows)) ELSE <<2000, 1, 1>>

max_date(table) ==
    IF table.rows # <<>> THEN TimestampDate(MaxTimestamp(table.rows)) ELSE <<2030, 12, 31>>

\* The calendar days a date input is tried with: its two bounds and the days
\* of February and March 2024 between them.
CalendarWindow ==
    { c \in { <<2024, m, d>> : m \in {2, 3}, d \in 1..31 } :
        c[3] <= DaysInMonth(c[1], c[2]) }

DateChoices(lo, hi) ==
    {lo, hi} \cup
    { c \in CalendarWindow :
        /\ TsKey(DateToTimestamp(lo)) <= TsKey(DateToTimestamp(c))
        /\ TsKey(DateToTimestamp(c)) <= TsKey(DateToTimestamp(hi)) }

\* Lines 177-201: every Filter Selection the widgets let the user make.
Selections(table) ==
    [ platform   : Options(table, "Platform"),
      sentiment  : Options(table, "Sentiment"),
      media_type : Options(table, "Media Type"),
      location   : Options(table, "Location"),
      start_date : DateChoices(min_date(table), max_date(table)),
      end_date   : DateChoices(min_date(table), max_date(table)) ]

\* Series == value: a missing cell equals nothing, itself included.
CellEq(cell, value) == cell # "NaN" /\ cell = value

\* Lines 205-212: one categorical filter.
FilterColumn(rows, col, selected) ==
    IF selected # "All"
    THEN LET Keep(r) == CellEq(r.cells[col], selected)
         IN  SelectSeq(rows, Keep)
    ELSE rows

\* A variant of line 217: `>` in place of `>=`.
StrictlyAfter(ts, bound) == TsKey(ts) > TsKey(bound)

\* Line 217: Date_dt >= start.
OnOrAfter(ts, bound) == TsKey(ts) >= TsKey(bound)

\* Line 219: Date_dt <= end.
OnOrBefore(ts, bound) == TsKey(ts) <= TsKey(bound)

\* Lines 203-220: the filtered table of a Filter Selection.  A datetime.date
\* is always true, so both date bounds always apply.
FilterTable(table, sel) ==
    LET r1 == FilterColumn(table.rows, "Platform", sel.platform)
        r2 == FilterColumn(r1, "Sentiment", sel.sentiment)
        r3 == FilterColumn(r2, "Media Type", sel.media_type)
        r4 == FilterColumn(r3, "Location", sel.location)
        Date_dt(r) == DateToTimestamp(r.cells["Date"])
        FromStart(r) == OnOrAfter(Date_dt(r), DateToTimestamp(sel.start_date))
        ToEnd(r)     == OnOrBefore(Date_dt(r), DateToTimestamp(sel.end_date))
    IN  [cols |-> table.cols, rows |-> SelectSeq(SelectSeq(r4, FromStart), ToEnd)]

(***************************************************************************)
(* main, the aggregations behind the five charts (lines 232-324).          *)
(***************************************************************************)
TopN == 5

\* The distinct values of a column in order of first appearance, the missing
\* cell left out (value_counts drops it).
FirstSeen(rows, col) ==
    LET AddIfNew(seen, v) ==
            IF v = "NaN" \/ \E k \in 1..Len(seen) : seen[k] = v
            THEN seen
            ELSE Append(seen, v)
        acc[i \in 0..Len(rows)] ==
            IF i = 0 THEN <<>> ELSE AddIfNew(acc[i - 1], rows[i].cells[col])
    IN  acc[Len(rows)]

CountOf(rows, col, v) == Cardinality({ i \in 1..Len(rows) : rows[i].cells[col] = v })

\* A variant of the sort: none, the counts stay in order of first appearance.
Unsorted(counts) == counts

\* sort_values(ascending=False) of the counts: by count, largest first, equal
\* counts in the order they had.
SortByCountDesc(counts) ==
    LET Insert(sorted, x) ==
            LET p == Cardinality({ i \in 1..Len(sorted) : sorted[i].Count >= x.Count })
            IN  SubSeq(sorted, 1, p) \o <<x>> \o SubSeq(sorted, p + 1, Len(sorted))
        acc[i \in 0..Len(counts)] ==
            IF i = 0 THEN <<>> ELSE Insert(acc[i - 1], counts[i])
    IN  acc[Len(counts)]

\* The count of every key, in the order of keys.
CountKeys(rows, col, keys) ==
    LET acc[k \in 0..Len(keys)] ==
            IF k = 0 THEN <<>>
            ELSE Append(acc[k - 1], [Key |-> keys[k], Count |-> CountOf(rows, col, keys[k])])
    IN  acc[Len(keys)]

\* df[col].value_counts().reset_index() (lines 235, 303, 323).
ValueCounts(rows, col) ==
    SortByCountDesc(CountKeys(rows, col, FirstSeen(rows, col)))

\* Series.nlargest(n) of counts already sorted: the first n of them.
NLargest(n, counts) ==
    SubSeq(counts, 1, IF Len(counts) < n THEN Len(counts) ELSE n)

\* Line 323: the top locations.
TopLocations(rows) == NLargest(TopN, ValueCounts(rows, "Location"))

SumEngagements(rows, Pick(_)) ==
    LET acc[i \in 0..Len(rows)] ==
            IF i = 0 THEN 0
            ELSE acc[i - 1] + (IF Pick(rows[i]) THEN rows[i].cells["Engagements"] ELSE 0)
    IN  acc[Len(rows)]

\* Lines 256-259: the sum of Engagements per day, by ascending day.
EngagementByDate(rows) ==
    LET days == { rows[i].cells["Date"] : i \in 1..Len(rows) }
        n    == Cardinality(days)
        ordered == CHOOSE f \in [1..n -> days] :
                      \A i, j \in 1..n :
                          i < j => TsKey(DateToTimestamp(f[i])) < TsKey(DateToTimestamp(f[j]))
        OnDay(day) == LET Same(r) == r.cells["Date"] = day
                      IN  SumEngagements(rows, Same)
    IN  [k \in 1..n |-> [Date_dt |-> DateToTimestamp(ordered[k]),
                         Engagements |-> OnDay(ordered[k])]]

\* Line 282: the sum of Engagements per platform; groupby drops the rows
\* whose platform is missing.  (The groups are kept as a set: their order,
\* by platform name, plays no part here.)
PlatformEngagements(rows) ==
    { [Platform |-> pf,
       Engagements |-> LET Same(r) == r.cells["Platform"] = pf
                       IN  SumEngagements(rows, Same)] :
        pf \in { rows[i].cells["Platform"] : i \in 1..Len(rows) } \ {"NaN"} }

(***************************************************************************)
(* SpecGemini: get_gemini_response applied to every key, prompt and        *)
(* transport outcome below.  The bodies are the well-formed shape and      *)
(* every way of replacing one level of it by a value of another type, by   *)
(* an empty container, or of leaving its key out.                          *)
(***************************************************************************)
Scalars == { JNull, JNum(5), JNum(0), JStr(<<>>), JStr(<<"a", "b">>) }

TextValues == Scalars \cup { JList(<<JStr(<<"a">>)>>), EmptyDict }

PartValues ==
    { JDict([text |-> t]) : t \in TextValues }
        \cup { EmptyDict, JDict([other |-> JNum(5)]) } \cup Scalars

PartsValues ==
    { JList(<<pt>>) : pt \in PartValues }
        \cup { JList(<<>>), JList(<<JDict([text |-> JStr(<<"a", "b">>)]), JNull>>),
               JDict([text |-> JStr(<<"a">>)]) }
        \cup Scalars

ContentValues ==
    { JDict([parts |-> ps]) : ps \in PartsValues }
        \cup { EmptyDict, JList(<<JNull>>) } \cup Scalars

CandidateValues ==
    { JDict([content |-> c]) : c \in ContentValues }
        \cup { EmptyDict, JList(<<>>) } \cup Scalars

CandidatesValues ==
    { JList(<<c>>) : c \in CandidateValues }
        \cup { JList(<<>>),
               JList(<<JDict([content |-> JDict([parts |-> JList(<<JDict([text |-> JStr(<<"a">>)])>>)])]),
                       JNull>>),
               JDict([content |-> JNull]) }
        \cup Scalars

ResultValues ==
    { JDict([candidates |-> cs]) : cs \in CandidatesValues }
        \cup { EmptyDict, JDict([error |-> JStr(<<"a">>)]), JList(<<>>), JList(<<JNull>>) }
        \cup Scalars

Bodies ==
    { <<"json", r>> : r \in ResultValues }
        \cup { <<"notjson", cls>> :
                 cls \in {"requests.JSONDecodeError", "json.JSONDecodeError", "ValueError"} }

Statuses == {200, 404, 500}

Transports ==
    { [k |-> "fail", cls |-> cls, status |-> 0, body |-> <<"none">>] :
        cls \in {"ConnectionError", "Timeout"} }
    \cup { [k |-> "http", cls |-> "", status |-> st, body |-> b] :
             st \in Statuses, b \in Bodies }

ApiKeys == { JNull, JStr(<<>>), JStr(<<"K">>) }

Prompts == { "summary prompt", "chart prompt" }

NoReturn == [raised |-> "", ret |-> <<"none">>]

(***************************************************************************)
(* SpecClean: clean_data applied to every table of up to MaxCleanRows rows *)
(* over the Date and Engagements cells below.                              *)
(***************************************************************************)
DateCell(k, y, m, d, hh) == [k |-> k, y |-> y, m |-> m, d |-> d, hh |-> hh]

CleanDateCells ==
    { DateCell("text", 2024, 2, 29, 0),     \* a leap day
      DateCell("text", 2024, 3, 1, 15),     \* a date with a time of day
      DateCell("text", 2023, 2, 29, 0),     \* the shape of a date, no calendar date
      DateCell("junk", 0, 0, 0, 0),         \* "bad-date"
      DateCell("nan", 0, 0, 0, 0) }         \* an empty cell

CleanEngCells ==
    { <<>>,               \* an empty cell
      <<"1", "2">>,       \* 12
      <<"-", "3">>,       \* -3
      <<"1", "x">> }      \* no number

MkRow(i, cells) == [idx |-> i, cells |-> cells]

CleanRowCells ==
    { [Date |-> dc, Engagements |-> ec] :
        dc \in CleanDateCells, ec \in CleanEngCells }

(***************************************************************************)
(* The tables of Spec and SpecFilter: rows drawn from a pool, with every   *)
(* column or with one column left out.                                     *)
(***************************************************************************)
AllColumns == {"Date", "Engagements", "Platform", "Sentiment", "Media Type", "Location"}

PoolRow(date, eng, platform, sentiment, media, location) ==
    [c \in AllColumns |->
        CASE c = "Date" -> date
          [] c = "Engagements" -> eng
          [] c = "Platform" -> platform
          [] c = "Sentiment" -> sentiment
          [] c = "Media Type" -> media
          [] c = "Location" -> location]

RowA == PoolRow(DateCell("text", 2024, 2, 29, 0), <<"7">>, "X", "Positive", "Image", "NYC")
RowB == PoolRow(DateCell("text", 2024, 3, 1, 15), <<>>, "Y", "Negative", "Video", "LA")
RowC == PoolRow(DateCell("junk", 0, 0, 0, 0), <<"3">>, "X", "Positive", "Image", "NYC")
RowD == PoolRow(DateCell("text", 2024, 2, 29, 0), <<"-", "3">>, "NaN", "Negative", "Image", "LA")
RowE == PoolRow(DateCell("text", 2024, 2, 28, 0), <<"1", "2">>, "Y", "Positive", "Video", "NYC")

Pool == { RowA, RowB, RowC, RowD, RowE }

\* The table read from a CSV file with the columns cols and the rows f[1..n].
RawTable(cols, n, f) ==
    [cols |-> cols,
     rows |-> [i \in 1..n |-> MkRow(i - 1, [c \in cols |-> f[i][c]])]]

ColumnSets == { AllColumns } \cup { AllColumns \ {c} : c \in AllColumns }

OptionalColumnSets == { AllColumns } \cup { AllColumns \ {c} : c \in CategoricalColumns }

NoUpload == [k |-> "none", df |-> NoFrame]
Unparseable == [k |-> "unparseable", df |-> NoFrame]

(***************************************************************************)
(* The variables a specification does not use stay at these values.        *)
(***************************************************************************)
NoSelection ==
    [platform |-> "All", sentiment |-> "All", media_type |-> "All", location |-> "All",
     start_date |-> <<2000, 1, 1>>, end_date |-> <<2030, 12, 31>>]

PassIdle ==
    /\ pc = "idle"
    /\ uploaded = NoUpload
    /\ df = NoFrame
    /\ filtered_df = NoFrame
    /\ calls = <<>>
    /\ charts = <<>>
    /\ ui = {}

CleanIdle ==
    /\ c_pc = "idle"
    /\ c_in = NoFrame
    /\ c_out = [exc |-> "", df |-> NoFrame]

GeminiIdle ==
    /\ g_pc = "idle"
    /\ g_prompt = ""
    /\ g_key = JNull
    /\ g_transport = [k |-> "none", cls |-> "", status |-> 0, body |-> <<"none">>]
    /\ g_ret = NoReturn
    /\ g_posts = <<>>

FilterIdle ==
    /\ f_pc = "idle"
    /\ f_df = NoFrame
    /\ f_sel = NoSelection
    /\ f_out = NoFrame

TopIdle ==
    /\ t_pc = "idle"
    /\ t_rows = <<>>
    /\ t_top = <<>>

(***************************************************************************)
(* Spec: one render pass of main (lines 65-344) over every upload below,   *)
(* every Filter Selection and every outcome of each insight call.          *)
(***************************************************************************)
\* Line 70: a non-empty literal.
GEMINI_API_KEY == JStr(<<"K">>)

WellFormedBody ==
    <<"json",
      JDict([candidates |->
          JList(<<JDict([content |->
              JDict([parts |-> JList(<<JDict([text |-> JStr(<<"a", "b">>)])>>)])])>>)])>>

\* What the endpoint does to a call of the pass: no connection, an answer
\* with the text, an HTTP error, an answer of another shape.
PassTransports ==
    { [k |-> "fail", cls |-> "ConnectionError", status |-> 0, body |-> <<"none">>],
      [k |-> "http", cls |-> "", status |-> 200, body |-> WellFormedBody],
      [k |-> "http", cls |-> "", status |-> 500, body |-> <<"json", EmptyDict>>],
      [k |-> "http", cls |-> "", status |-> 200, body |-> <<"json", JList(<<>>)>>] }

InitPass ==
    /\ pc = "start"
    /\ \/ uploaded \in { NoUpload, Unparseable }
       \/ \E cols \in ColumnSets : \E n \in 0..MaxRows : \E f \in [1..n -> Pool] :
             uploaded = [k |-> "csv", df |-> RawTable(cols, n, f)]
    /\ df = NoFrame
    /\ filtered_df = NoFrame
    /\ calls = <<>>
    /\ charts = <<>>
    /\ ui = {}

Init == InitPass /\ CleanIdle /\ GeminiIdle /\ FilterIdle /\ TopIdle

others == <<cleanVars, geminiVars, filterVars, topVars>>

\* Lines 342-344: the outer handler reports the exception.
Fail ==
    /\ pc' = "error"
    /\ ui' = ui \cup {"error", "info"}

\* One with-spinner block (lines 166-168, 248-250, 272-274, 295-297, 316-318,
\* 337-339): the call, then st.markdown of what it returned.
Insight(label, next) ==
    \E t \in PassTransports :
        LET r == get_gemini_response(label, GEMINI_API_KEY, t)
        IN  /\ calls' = Append(calls, [label    |-> label,
                                       posts    |-> Len(r.posts),
                                       fallback |-> r.raised = "" /\ IsFallback(r.ret)])
            /\ IF r.raised # ""
               THEN Fail
               ELSE pc' = next /\ UNCHANGED ui

\* Lines 146-151: nothing uploaded, or read_csv and clean_data.
LoadAndClean ==
    /\ pc = "start"
    /\ IF uploaded.k = "none"
       THEN pc' = "done" /\ UNCHANGED <<df, ui>>
       ELSE IF uploaded.k = "unparseable"
       THEN Fail /\ UNCHANGED df
       ELSE LET r == clean_data(uploaded.df)
            IN  IF r.exc # ""
                THEN Fail /\ UNCHANGED df
                ELSE /\ df' = r.df
                     /\ ui' = ui \cup {"success"}
                     /\ pc' = "summary"
    /\ UNCHANGED <<uploaded, filtered_df, calls, charts, others>>

\* Lines 153-171: the campaign summary, asked for when the table is not empty.
Summary ==
    /\ pc = "summary"
    /\ IF df.rows # <<>>
       THEN Insight("summary", "filters")
       ELSE pc' = "filters" /\ UNCHANGED <<calls, ui>>
    /\ UNCHANGED <<uploaded, df, filtered_df, charts, others>>

\* Lines 173-222: the widgets, the selection made, the filtered table.
Filters ==
    /\ pc = "filters"
    /\ IF OptionsRaise(df)
       THEN Fail /\ UNCHANGED filtered_df
       ELSE /\ \E sel \in Selections(df) : filtered_df' = FilterTable(df, sel)
            /\ pc' = "check"
            /\ UNCHANGED ui
    /\ UNCHANGED <<uploaded, df, calls, charts, others>>

\* A variant of lines 224-226: the warning without the return.
NoReturnOnEmpty(rows) == "chart1"

\* Lines 224-226: where the pass goes after the filters.
AfterEmptyCheck(rows) == IF rows = <<>> THEN "done" ELSE "chart1"

\* Lines 224-226: the warning when nothing matches.
CheckEmpty ==
    /\ pc = "check"
    /\ ui' = IF filtered_df.rows = <<>> THEN ui \cup {"warning"} ELSE ui
    /\ pc' = AfterEmptyCheck(filtered_df.rows)
    /\ UNCHANGED <<uploaded, df, filtered_df, calls, charts, others>>

\* One chart card: the aggregation (KeyError when its column is missing),
\* the chart, the insight.
ChartCard(at, needs, title, data, label, next) ==
    /\ pc = at
    /\ IF needs \notin filtered_df.cols
       THEN Fail /\ UNCHANGED <<charts, calls>>
       ELSE /\ charts' = Append(charts, [title |-> title, data |-> data])
            /\ Insight(label, next)
    /\ UNCHANGED <<uploaded, df, filtered_df, others>>

\* Lines 232-251.
SentimentChart ==
    ChartCard("chart1", "Sentiment", "Sentiment Breakdown",
              ValueCounts(filtered_df.rows, "Sentiment"), "sentiment", "chart2")

\* Lines 253-275.
EngagementChart ==
    ChartCard("chart2", "Engagements", "Engagement Trend over Time",
              EngagementByDate(filtered_df.rows), "engagement trend", "chart3")

\* Lines 279-298.
PlatformChart ==
    ChartCard("chart3", "Platform", "Platform Engagements",
              PlatformEngagements(filtered_df.rows), "platform", "chart4")

\* Lines 300-319.
MediaTypeChart ==
    ChartCard("chart4", "Media Type", "Media Type Mix",
              ValueCounts(filtered_df.rows, "Media Type"), "media type", "chart5")

\* Lines 321-340.
LocationChart ==
    ChartCard("chart5", "Location", "Top 5 Locations",
              TopLocations(filtered_df.rows), "top locations", "done")

Next ==
    \/ LoadAndClean
    \/ Summary
    \/ Filters
    \/ CheckEmpty
    \/ SentimentChart
    \/ EngagementChart
    \/ PlatformChart
    \/ MediaTypeChart
    \/ LocationChart

Spec == Init /\ [][Next]_vars

(***************************************************************************)
(* SpecClean                                                               *)
(***************************************************************************)
InitClean ==
    /\ PassIdle /\ GeminiIdle /\ FilterIdle /\ TopIdle
    /\ c_pc = "ready"
    /\ \E n \in 0..MaxCleanRows : \E f \in [1..n -> CleanRowCells] :
          c_in = [cols |-> {"Date", "Engagements"},
                  rows |-> [i \in 1..n |-> MkRow(i - 1, f[i])]]
    /\ c_out = [exc |-> "", df |-> NoFrame]

CleanData ==
    /\ c_pc = "ready"
    /\ c_out' = clean_data(c_in)
    /\ c_pc' = "done"
    /\ UNCHANGED <<c_in, passVars, geminiVars, filterVars, topVars>>

NextClean == CleanData

SpecClean == InitClean /\ [][NextClean]_vars

(***************************************************************************)
(* SpecGemini                                                              *)
(***************************************************************************)
InitGemini ==
    /\ PassIdle /\ CleanIdle /\ FilterIdle /\ TopIdle
    /\ g_pc = "ready"
    /\ g_prompt \in Prompts
    /\ g_key \in ApiKeys
    /\ g_transport \in Transports
    /\ g_ret = NoReturn
    /\ g_posts = <<>>

GetGeminiResponse ==
    /\ g_pc = "ready"
    /\ LET r == get_gemini_response(g_prompt, g_key, g_transport)
       IN  /\ g_ret' = [raised |-> r.raised, ret |-> r.ret]
           /\ g_posts' = g_posts \o r.posts
    /\ g_pc' = "done"
    /\ UNCHANGED <<g_prompt, g_key, g_transport, passVars, cleanVars, filterVars, topVars>>

NextGemini == GetGeminiResponse

SpecGemini == InitGemini /\ [][NextGemini]_vars

(***************************************************************************)
(* SpecFilter: the filters section applied to every canonical table that   *)
(* clean_data makes of a raw table over Pool, and to every Filter    *)
(* Selection its widgets offer for that table.                             *)
(***************************************************************************)
InitFilter ==
    /\ PassIdle /\ CleanIdle /\ GeminiIdle /\ TopIdle
    /\ f_pc = "ready"
    /\ \E cols \in OptionalColumnSets : \E n \in 0..MaxRows : \E f \in [1..n -> Pool] :
          /\ f_df = clean_data(RawTable(cols, n, f)).df
          /\ ~OptionsRaise(f_df)
    /\ f_sel \in Selections(f_df)
    /\ f_out = NoFrame

ApplyFilter ==
    /\ f_pc = "ready"
    /\ f_out' = FilterTable(f_df, f_sel)
    /\ f_pc' = "done"
    /\ UNCHANGED <<f_df, f_sel, passVars, cleanVars, geminiVars, topVars>>

NextFilter == ApplyFilter

SpecFilter == InitFilter /\ [][NextFilter]_vars

(***************************************************************************)
(* SpecTop: the top-locations aggregation applied to every Location column *)
(* of 1 to MaxTopRows rows.  value_counts only tells locations apart, so   *)
(* the columns are taken up to renaming: the locations are named in order  *)
(* of first appearance.  A cell may be missing.                            *)
(***************************************************************************)
LocationNames == <<"L1", "L2", "L3", "L4", "L5", "L6", "L7">>

\* How many of the names a column uses.
Used(col) == Cardinality({ col[i] : i \in 1..Len(col) } \ {"NaN"})

\* The cells that may follow a column: a missing one, a name already used,
\* or the next unused name.
NextCells(col) ==
    {"NaN"} \cup
    { LocationNames[k] : k \in 1..(IF Used(col) < Len(LocationNames)
                                   THEN Used(col) + 1 ELSE Len(LocationNames)) }

RECURSIVE LocationColumns(_)
LocationColumns(n) ==
    IF n = 0 THEN { <<>> }
    ELSE UNION { { Append(col, cell) : cell \in NextCells(col) } :
                   col \in LocationColumns(n - 1) }

InitTop ==
    /\ PassIdle /\ CleanIdle /\ GeminiIdle /\ FilterIdle
    /\ t_pc = "ready"
    /\ \E n \in 1..MaxTopRows : \E col \in LocationColumns(n) :
          t_rows = [i \in 1..n |-> MkRow(i - 1, [Location |-> col[i]])]
    /\ t_top = <<>>

ComputeTopLocations ==
    /\ t_pc = "ready"
    /\ t_top' = TopLocations(t_rows)
    /\ t_pc' = "done"
    /\ UNCHANGED <<t_rows, passVars, cleanVars, geminiVars, filterVars>>

NextTop == ComputeTopLocations

SpecTop == InitTop /\ [][NextTop]_vars

(***************************************************************************)
(* Properties of get_gemini_response (SpecGemini).                         *)
(***************************************************************************)
\* A returned value that is text: a message of the function or a JSON string.
IsText(v) == v[1] \in {"msg", "str"}

\* The decoded body has candidates[0].content.parts[0].text.
HasTextField(result) ==
    /\ result[1] = "dict" /\ "candidates" \in DOMAIN result[2]
    /\ LET cs == result[2]["candidates"]
       IN  /\ cs[1] = "list" /\ cs[2] # <<>>
           /\ cs[2][1][1] = "dict" /\ "content" \in DOMAIN cs[2][1][2]
           /\ LET ct == cs[2][1][2]["content"]
              IN  /\ ct[1] = "dict" /\ "parts" \in DOMAIN ct[2]
                  /\ LET ps == ct[2]["parts"]
                     IN  /\ ps[1] = "list" /\ ps[2] # <<>>
                         /\ ps[2][1][1] = "dict" /\ "text" \in DOMAIN ps[2][1][2]

TextField(result) == result[2]["candidates"][2][1][2]["content"][2]["parts"][2][1][2]["text"]

\* The transport answered with an HTTP success status and a JSON body.
HttpSuccessJson(t) ==
    t.k = "http" /\ t.status < 400 /\ t.body[1] = "json"

\* C5 as stated: with a non-empty key the call returns a string and never
\* raises, whatever the transport does; on a connection error, an HTTP error
\* status, a body that is no JSON or a JSON body without
\* candidates[0].content.parts[0].text it returns a fallback message.
C5_AlwaysReturnsString ==
    (g_pc = "done" /\ Truthy(g_key)) =>
        /\ g_ret.raised = ""
        /\ IsText(g_ret.ret)
        /\ (~HttpSuccessJson(g_transport) \/ ~HasTextField(g_transport.body[2]))
              => IsFallback(g_ret.ret)

\* C5, the part the code keeps: no exception leaves the call, and without
\* the text field the value returned is a fallback message.
C5_NeverRaises ==
    (g_pc = "done" /\ Truthy(g_key)) =>
        /\ g_ret.raised = ""
        /\ (~HttpSuccessJson(g_transport) \/ ~HasTextField(g_transport.body[2]))
              => IsFallback(g_ret.ret)

\* C6: with an absent key (None or the empty string) the call returns the
\* fixed key-unavailable message and issues no HTTP request, for every prompt.
C6_NoKeyNoRequest ==
    (g_pc = "done" /\ g_key \in {JNull, JStr(<<>>)}) =>
        /\ g_ret = [raised |-> "", ret |-> Msg("API Key tidak tersedia")]
        /\ Len(g_posts) = 0

\* C6 witness: a call with the empty string as key, over a transport that
\* would have answered 200, has returned the message.
C6_Witness ==
    /\ g_pc = "done"
    /\ g_key = JStr(<<>>)
    /\ HttpSuccessJson(g_transport)
    /\ g_ret.ret = Msg("API Key tidak tersedia")

\* C7 as stated: for an HTTP-success response of the shape
\* {candidates: [{content: {parts: [{text: s}]}}, ...]}, s any string, the
\* empty one included, the call returns exactly s and no fallback message.
C7_ReturnsTextField ==
    (/\ g_pc = "done" /\ Truthy(g_key)
     /\ HttpSuccessJson(g_transport)
     /\ HasTextField(g_transport.body[2])
     /\ TextField(g_transport.body[2])[1] = "str")
        => g_ret = [raised |-> "", ret |-> TextField(g_transport.body[2])]

(***************************************************************************)
(* Properties of the filters section (SpecFilter).                         *)
(***************************************************************************)
\* Calendar order of two dates <<y, m, d>>.
DateLE(a, b) ==
    \/ a[1] < b[1]
    \/ a[1] = b[1] /\ a[2] < b[2]
    \/ a[1] = b[1] /\ a[2] = b[2] /\ a[3] <= b[3]

\* The categorical constraints of the selection f_sel, by column.
Constraint(col) ==
    CASE col = "Platform" -> f_sel.platform
      [] col = "Sentiment" -> f_sel.sentiment
      [] col = "Media Type" -> f_sel.media_type
      [] col = "Location" -> f_sel.location

\* The record satisfies every active constraint of f_sel: its column is the
\* selected string (a missing cell is no string), its date lies in the range.
SatisfiesSelection(r) ==
    /\ \A col \in CategoricalColumns :
          Constraint(col) # "All" =>
              /\ col \in f_df.cols
              /\ r.cells[col] # "NaN"
              /\ r.cells[col] = Constraint(col)
    /\ DateLE(f_sel.start_date, r.cells["Date"])
    /\ DateLE(r.cells["Date"], f_sel.end_date)

\* C2: the filtered table is exactly the canonical records, in original
\* order, whose column equals the selected string for every categorical
\* constraint that is not 'All' and whose date d has start_date <= d <=
\* end_date, both endpoints retained; so it is a subset of the canonical
\* table, and with every constraint 'All' and the date bounds at the
\* table's min and max date it is the canonical table.
C2_FilterIsExactSelection ==
    f_pc = "done" =>
        /\ f_out.cols = f_df.cols
        /\ f_out.rows = SelectSeq(f_df.rows, SatisfiesSelection)
        /\ \A k \in 1..Len(f_out.rows) :
              \E i \in 1..Len(f_df.rows) : f_out.rows[k] = f_df.rows[i]
        /\ (/\ \A col \in CategoricalColumns : Constraint(col) = "All"
            /\ \A i \in 1..Len(f_df.rows) :
                  /\ DateLE(f_sel.start_date, f_df.rows[i].cells["Date"])
                  /\ DateLE(f_df.rows[i].cells["Date"], f_sel.end_date))
              => f_out = f_df

\* C2 witness: under an active categorical constraint and a range of more
\* than one day, one record dated exactly start_date and one dated exactly
\* end_date are both retained.
C2_Witness ==
    /\ f_pc = "done"
    /\ \E col \in CategoricalColumns : Constraint(col) # "All"
    /\ f_sel.start_date # f_sel.end_date
    /\ \E k \in 1..Len(f_out.rows) : f_out.rows[k].cells["Date"] = f_sel.start_date
    /\ \E k \in 1..Len(f_out.rows) : f_out.rows[k].cells["Date"] = f_sel.end_date

(***************************************************************************)
(* Properties of the top-locations aggregation (SpecTop).                  *)
(***************************************************************************)
\* The locations of the filtered table and the records of each.
LocationsOf(rows) == { rows[i].cells["Location"] : i \in 1..Len(rows) } \ {"NaN"}

RecordsAt(rows, loc) ==
    Cardinality({ i \in 1..Len(rows) : rows[i].cells["Location"] = loc })

TopKeys == { t_top[k].Key : k \in 1..Len(t_top) }

\* C8: the top-locations aggregation has at most 5 entries, every entry has
\* the count the location has in the filtered table, the counts do not
\* increase, and no location left out has more records than one included.
C8_TopLocations ==
    t_pc = "done" =>
        /\ Len(t_top) <= 5
        /\ \A k \in 1..Len(t_top) :
              /\ t_top[k].Key \in LocationsOf(t_rows)
              /\ t_top[k].Count = RecordsAt(t_rows, t_top[k].Key)
        /\ \A j, k \in 1..Len(t_top) : j < k => t_top[j].Count >= t_top[k].Count
        /\ \A out \in LocationsOf(t_rows) \ TopKeys :
              \A k \in 1..Len(t_top) : RecordsAt(t_rows, out) <= t_top[k].Count

\* C8 witness: a table of more than 5 locations whose most frequent one is
\* not the first to appear: 5 entries, of unequal counts, one location out.
C8_Witness ==
    /\ t_pc = "done"
    /\ Cardinality(LocationsOf(t_rows)) > 5
    /\ Len(t_top) = 5
    /\ t_top[1].Count > t_top[5].Count
    /\ t_top[1].Key # "L1"
    /\ LocationsOf(t_rows) \ TopKeys # {}

(***************************************************************************)
(* Properties of the render pass (Spec).                                   *)
(***************************************************************************)
\* The filters section has run: it gave filtered_df the columns of df.
Filtered == filtered_df.cols # {}

CallLabels == [i \in 1..Len(calls) |-> calls[i].label]

\* The upload has Date and Engagements and lacks exactly one optional column.
LacksOneOptionalColumn ==
    /\ uploaded.k = "csv"
    /\ \E col \in CategoricalColumns : uploaded.df.cols = AllColumns \ {col}

\* C3 as stated: for an upload with Date and Engagements that lacks one of
\* Platform, Sentiment, Media Type, Location, the pass never ends in the
\* error state of the outer handler.  (Uploads whose columns cannot be
\* sorted for the select boxes are left aside: they fail for another cause.)
C3_MissingColumnNeverFails ==
    (LacksOneOptionalColumn /\ ~OptionsRaise(df)) => (pc # "error" /\ "error" \notin ui)

\* C4: in a pass whose filtered table is empty the warning is given and the
\* pass ends there: no aggregation is computed, no chart rendered, and no
\* insight call made after the filters.
C4_EmptyFilterEndsPass ==
    (Filtered /\ filtered_df.rows = <<>> /\ pc # "check") =>
        /\ pc = "done"
        /\ "warning" \in ui
        /\ "error" \notin ui
        /\ charts = <<>>
        /\ \A i \in 1..Len(calls) : calls[i].label = "summary"
        /\ Len(calls) = (IF df.rows # <<>> THEN 1 ELSE 0)

\* C4 witness: a pass over a canonical table that is not empty, ended by the
\* warning after a selection that matches nothing; the summary call stands.
C4_Witness ==
    /\ pc = "done"
    /\ "warning" \in ui
    /\ df.rows # <<>>
    /\ filtered_df.rows = <<>>
    /\ Len(calls) = 1

\* A full render pass: all six columns, a canonical and a filtered table that
\* are not empty.
FullPass ==
    /\ uploaded.k = "csv"
    /\ uploaded.df.cols = AllColumns
    /\ df.rows # <<>>
    /\ Filtered
    /\ filtered_df.rows # <<>>

CallOrder ==
    <<"summary", "sentiment", "engagement trend", "platform", "media type", "top locations">>

\* The calls made by the time the pass stands at a place.
CallsBy(place) ==
    CASE place = "check"  -> 1 [] place = "chart1" -> 1 [] place = "chart2" -> 2
      [] place = "chart3" -> 3 [] place = "chart4" -> 4 [] place = "chart5" -> 5
      [] place = "done"   -> 6

\* C10: in a full render pass exactly six insight calls are made, one after
\* another in the order summary, sentiment, engagement trend, platform,
\* media type, top locations; each makes at most one HTTP attempt, and a
\* call that ends in a fallback message does not keep the later ones from
\* being made.
C10_SixCallsInOrder ==
    FullPass =>
        /\ pc \in {"check", "chart1", "chart2", "chart3", "chart4", "chart5", "done"}
        /\ Len(calls) = CallsBy(pc)
        /\ CallLabels = SubSeq(CallOrder, 1, Len(calls))
        /\ \A i \in 1..Len(calls) : calls[i].posts <= 1

\* C10 witness: a full pass that has ended with six calls made, the first of
\* which came back with a fallback message and the last with the text.
C10_Witness ==
    /\ FullPass
    /\ pc = "done"
    /\ Len(calls) = 6
    /\ calls[1].fallback
    /\ calls[3].fallback
    /\ ~calls[6].fallback

(***************************************************************************)
(* Properties of clean_data (SpecClean).                                   *)
(***************************************************************************)
\* What the claims call a Date value that parses to a valid calendar date.
ParsesToCalendarDate(cell) ==
    /\ cell.k = "text"
    /\ \E m \in 1..12 : \E d \in 1..31 :
          cell.m = m /\ cell.d = d /\ d <= DaysInMonth(cell.y, m)
    /\ cell.hh >= 0 /\ cell.hh < 24

IdxOf(rows) == [i \in 1..Len(rows) |-> rows[i].idx]

\* The raw row of c_in that carries index label i.
RawRow(i) == c_in.rows[i + 1]

C9_EngagementsNonNegative ==
    c_pc = "done" =>
        \A k \in 1..Len(c_out.df.rows) :
            c_out.df.rows[k].cells["Engagements"] >= 0

\* C9 amended: every record of the canonical table has a numeric Engagements
\* value, and it is negative only when the input cell is a negative number,
\* which is then kept as it is.
C9_EngagementsNumeric ==
    c_pc = "done" =>
        \A k \in 1..Len(c_out.df.rows) :
            LET e   == c_out.df.rows[k].cells["Engagements"]
                raw == RawRow(c_out.df.rows[k].idx).cells["Engagements"]
            IN  /\ e \in Int
                /\ e < 0 => /\ Len(raw) >= 2
                            /\ raw[1] = "-"
                            /\ e = 0 - DigitsVal(Tail(raw))

\* C9 witness: a canonical table holding a negative Engagements value that
\* came from the input and a 0 that replaced an empty cell.
C9_Witness ==
    /\ c_pc = "done"
    /\ \E k \in 1..Len(c_out.df.rows) : c_out.df.rows[k].cells["Engagements"] < 0
    /\ \E k \in 1..Len(c_out.df.rows) :
          /\ c_out.df.rows[k].cells["Engagements"] = 0
          /\ RawRow(c_out.df.rows[k].idx).cells["Engagements"] = <<>>

====
